---- MODULE Spec2Model ----
(***************************************************************************)
(* Model of display_agents.py: parse_readme (the extractor) scans the      *)
(* lines of a README and builds the category -> entries catalog;           *)
(* display_agents (the presenter) prints it with 70-column slicing.        *)
(*                                                                         *)
(* Text is a sequence of characters, each character a one-character        *)
(* string; "ROCKET", "BULLET", "BOOKS", "BULB", "BOX", "ZAP", "BRAIN",      *)
(* "TAB" and "NL" each stand for the one code point they name.  The text   *)
(* of a fixed print call that no operation inspects is kept as one atom.   *)
(***************************************************************************)
EXTENDS Integers, Sequences, FiniteSets, TLC

VARIABLES
    path_exists,       \* os.path.exists(readme_path)
    content,           \* the text of the file (f.read())
    lines,             \* content.split('\n')
    i,                 \* position of the for loop over the lines (1-based)
    current_category,  \* parse_readme's cursor: None or a category name
    agents,            \* the catalog being built / returned: None or a dict
    cat_idx,           \* position of the loop over agents.items()
    agent_idx,         \* position of the loop over agent_list
    remaining,         \* the rest of the description still to print
    output,            \* the arguments of the print calls so far
    pc                 \* control position

vars == <<path_exists, content, lines, i, current_category, agents,
          cat_idx, agent_idx, remaining, output, pc>>

(***************************************************************************)
(* Bounds of the model.                                                    *)
(***************************************************************************)
MaxLines == 3
MaxDescLen == 145

(***************************************************************************)
(* Python values.                                                          *)
(***************************************************************************)
None == [is_none |-> TRUE]

Some(v) == [is_none |-> FALSE, val |-> v]

\* Python truthiness of None, a str or a dict.
Truthy(o) == (~o.is_none) /\ Len(o.val) > 0

Min(a, b) == IF a < b THEN a ELSE b

\* s[:n]
SliceTo(s, n) == SubSeq(s, 1, Min(n, Len(s)))

\* Variant: the slice starts one character late.
SliceFromOffByOne(s, n) == SubSeq(s, n + 2, Len(s))

\* s[n:]
SliceFrom(s, n) == SubSeq(s, n + 1, Len(s))

\* s.startswith(p)
StartsWith(s, p) == Len(s) >= Len(p) /\ SubSeq(s, 1, Len(p)) = p

\* p in s  (substring containment)
Contains(s, p) ==
    \E k \in 1..(Len(s) - Len(p) + 1) : SubSeq(s, k, k + Len(p) - 1) = p

WhitespaceChars == {" ", "TAB"}

RECURSIVE LStrip(_)
LStrip(s) ==
    IF s # <<>> /\ Head(s) \in WhitespaceChars THEN LStrip(Tail(s)) ELSE s

RECURSIVE RStrip(_)
RStrip(s) ==
    IF s # <<>> /\ s[Len(s)] \in WhitespaceChars
    THEN RStrip(SubSeq(s, 1, Len(s) - 1))
    ELSE s

\* s.strip()
Strip(s) == RStrip(LStrip(s))

\* Index of the first occurrence of character c in s at or after from; 0 if none.
IndexFrom(s, c, from) ==
    LET hits == {k \in from..Len(s) : s[k] = c}
    IN  IF hits = {} THEN 0
        ELSE CHOOSE k \in hits : \A m \in hits : k <= m

\* content.split('\n')
RECURSIVE Split(_)
Split(s) ==
    LET k == IndexFrom(s, "NL", 1)
    IN  IF k = 0 THEN <<s>>
        ELSE <<SubSeq(s, 1, k - 1)>> \o Split(SubSeq(s, k + 1, Len(s)))

(***************************************************************************)
(* The literals of parse_readme.                                           *)
(***************************************************************************)
CategoryList ==
    << <<"D","e","v","e","l","o","p","m","e","n","t"," ","&"," ","A","r","c","h","i","t","e","c","t","u","r","e">>,
       <<"L","a","n","g","u","a","g","e"," ","S","p","e","c","i","a","l","i","s","t","s">>,
       <<"I","n","f","r","a","s","t","r","u","c","t","u","r","e"," ","&"," ","O","p","e","r","a","t","i","o","n","s">>,
       <<"Q","u","a","l","i","t","y"," ","&"," ","S","e","c","u","r","i","t","y">>,
       <<"D","a","t","a"," ","&"," ","A","I">>,
       <<"S","p","e","c","i","a","l","i","z","e","d"," ","D","o","m","a","i","n","s">>,
       <<"D","o","c","u","m","e","n","t","a","t","i","o","n">>,
       <<"B","u","s","i","n","e","s","s"," ","&"," ","M","a","r","k","e","t","i","n","g">>,
       <<"S","E","O"," ","&"," ","C","o","n","t","e","n","t"," ","O","p","t","i","m","i","z","a","t","i","o","n">> >>

\* The dict literal: an insertion-ordered sequence of (key, value) items.
InitialAgents == [k \in 1..Len(CategoryList) |-> [key |-> CategoryList[k], val |-> <<>>]]

HeadingMarker == <<"#","#","#"," ">>

RocketMarker == <<"#","#","#"," ","ROCKET">>

EntryMarker == <<"-"," ","*","*","[">>

\* Index of key c in dict d (0 if absent).
KeyIndex(d, c) ==
    IF \E k \in 1..Len(d) : d[k].key = c
    THEN CHOOSE k \in 1..Len(d) : d[k].key = c
    ELSE 0

\* Variant: the entry goes into a new item instead of the category's list.
DictAppendNewItem(d, c, e) == Append(d, [key |-> c, val |-> <<e>>])

\* agents[c].append(e)
DictAppend(d, c, e) ==
    [d EXCEPT ![KeyIndex(d, c)].val = Append(@, e)]

\* Variant: the rocket headings are not excluded.
IsCategoryHeadingAnyMarker(line) == StartsWith(line, HeadingMarker)

\* line.startswith('### ') and not line.startswith('### ROCKET')
IsCategoryHeading(line) ==
    StartsWith(line, HeadingMarker) /\ ~StartsWith(line, RocketMarker)

\* Variant: a heading naming no known category unsets the cursor.
HeadingCategoryClearing(d, line, cur) ==
    LET hits == {k \in 1..Len(d) : Contains(line, d[k].key)}
    IN  IF hits = {} THEN None
        ELSE Some(d[CHOOSE k \in hits : \A m \in hits : k <= m].key)

\* Variant: no break, the last name of the list found in the line wins.
HeadingCategoryLast(d, line, cur) ==
    LET hits == {k \in 1..Len(d) : Contains(line, d[k].key)}
    IN  IF hits = {} THEN cur
        ELSE Some(d[CHOOSE k \in hits : \A m \in hits : k >= m].key)

\* for cat in agents.keys(): if cat in line: current_category = cat; break
HeadingCategory(d, line, cur) ==
    LET hits == {k \in 1..Len(d) : Contains(line, d[k].key)}
    IN  IF hits = {} THEN cur
        ELSE Some(d[CHOOSE k \in hits : \A m \in hits : k <= m].key)

\* Variant: the description group is trimmed.
AgentMatchStripped(s) ==
    LET p == IndexFrom(s, "]", Len(EntryMarker) + 1)
        q == IF p = 0 THEN 0 ELSE IndexFrom(s, ")", p + 2)
        desc == Strip(SubSeq(s, q + 6, Len(s)))
    IN  IF /\ StartsWith(s, EntryMarker)
           /\ p > Len(EntryMarker) + 1
           /\ p + 1 <= Len(s) /\ s[p + 1] = "("
           /\ q > p + 2
           /\ SubSeq(s, q + 1, Min(q + 5, Len(s))) = <<"*","*"," ","-"," ">>
           /\ Len(desc) >= 1
        THEN Some([name |-> SubSeq(s, Len(EntryMarker) + 1, p - 1), desc |-> desc])
        ELSE None

\* re.match(r'- \*\*\[([^\]]+)\]\([^\)]+\)\*\* - (.+)', s):
\* None, or the groups (name, desc).
AgentMatch(s) ==
    LET p == IndexFrom(s, "]", Len(EntryMarker) + 1)
        q == IF p = 0 THEN 0 ELSE IndexFrom(s, ")", p + 2)
        rest == SubSeq(s, q + 6, Len(s))
        nl == IndexFrom(rest, "NL", 1)
        desc == IF nl = 0 THEN rest ELSE SubSeq(rest, 1, nl - 1)
    IN  IF /\ StartsWith(s, EntryMarker)
           /\ p > Len(EntryMarker) + 1
           /\ p + 1 <= Len(s) /\ s[p + 1] = "("
           /\ q > p + 2
           /\ SubSeq(s, q + 1, Min(q + 5, Len(s))) = <<"*","*"," ","-"," ">>
           /\ Len(desc) >= 1
        THEN Some([name |-> SubSeq(s, Len(EntryMarker) + 1, p - 1), desc |-> desc])
        ELSE None

(***************************************************************************)
(* The files the model reads.  A file is lines joined by newlines.         *)
(***************************************************************************)
RECURSIVE Join(_)
Join(ls) ==
    IF ls = <<>> THEN <<>>
    ELSE IF Len(ls) = 1 THEN ls[1]
    ELSE ls[1] \o <<"NL">> \o Join(Tail(ls))

\* '- **[name](link)** - desc'
EntryLine(name, link, desc) ==
    EntryMarker \o name \o <<"]","(">> \o link \o <<")","*","*"," ","-"," ">> \o desc

DescAlphabet == <<"a","b","c","d","e","f","g","h","j">>

\* A description of n characters whose characters depend on their position.
DescOfLen(n) == [k \in 1..n |-> DescAlphabet[(k % Len(DescAlphabet)) + 1]]

DevHeading == HeadingMarker \o CategoryList[1]

DocHeading == HeadingMarker \o CategoryList[7]

\* Two known names; the later one of the list comes first in the text.
MultiHeading == HeadingMarker \o CategoryList[7] \o <<" ">> \o CategoryList[5]

UnknownHeading == HeadingMarker \o <<"O","t","h","e","r">>

RocketHeading == RocketMarker \o <<" ">> \o CategoryList[5]

PlainEntry == EntryLine(<<"a","-","b">>, <<"l">>, <<"d"," ","e",".">>)

\* Leading and trailing whitespace; brackets inside the fields.
PaddedEntry ==
    <<" "," ">> \o EntryLine(<<"b","[">>, <<"l","(">>, <<" ","f",")"," ","]","*","*">>)
        \o <<" ","TAB">>

MalformedEntry == EntryMarker \o <<"c","]"," ","-"," ","d">>

LineSet ==
    {DevHeading, DocHeading, MultiHeading, UnknownHeading, RocketHeading,
     PlainEntry, PaddedEntry, MalformedEntry, <<"t","e","x","t">>}

\* Lines that start with the entry marker and do not match the pattern.
MalformedSet ==
    {MalformedEntry,
     EntryMarker \o <<"]","(","l",")","*","*"," ","-"," ","d">>,
     EntryMarker \o <<"c","]","(",")","*","*"," ","-"," ","d">>,
     EntryMarker \o <<"c","]"," ","(","l",")","*","*"," ","-"," ","d">>,
     EntryMarker \o <<"c","]","(","l",")","*"," ","-"," ","d">>,
     EntryMarker \o <<"c","]","(","l",")","*","*"," ","-"," ">>,
     EntryMarker \o <<"c","]","(","l",")","*","*","-"," ","d">>,
     EntryMarker \o <<"c","(","l",")","*","*"," ","-"," ","d">>,
     <<"TAB">> \o EntryMarker \o <<"c","]","(","l","*","*"," ","-"," ","d">>}

ShortName == <<"c","o","d","e","-","r","e","v","i","e","w","e","r">>

LongName == [k \in 1..32 |-> IF k % 2 = 0 THEN "x" ELSE "y"]

GeneralDocs ==
    UNION {{Join(ls) : ls \in [1..n -> LineSet]} : n \in 0..MaxLines}

WrapDocs ==
    {Join(<<DevHeading, EntryLine(nm, <<"l">>, DescOfLen(n))>>) :
        nm \in {ShortName, LongName}, n \in 1..MaxDescLen}
    \cup {Join(<<DocHeading, EntryLine(ShortName, <<"l">>, DescOfLen(n)), PlainEntry>>) :
        n \in {70, 71, 85}}

MalformedDocs ==
    {Join(<<DocHeading, m, PlainEntry>>) : m \in MalformedSet}

Docs == GeneralDocs \cup WrapDocs \cup MalformedDocs

(***************************************************************************)
(* The literals of display_agents.                                         *)
(***************************************************************************)
DescWidth == 70

NameWidth == 30

BannerWidth == 80

RuleWidth == 40

Repeat(c, n) == [k \in 1..n |-> c]

\* format(s, '30'): left-justified, padded with spaces to at least w.
LJust(s, w) == IF Len(s) >= w THEN s ELSE s \o Repeat(" ", w - Len(s))

UnableMessage == <<"Unable to load agent information.">>

TitleLine == <<"NL", "BOOKS", " Available Claude Code Agents (75 total)", "NL">>

FooterLines ==
    << <<"NL">> \o Repeat("=", BannerWidth),
       <<"NL", "BULB", " Usage: Mention an agent by name or let Claude auto-select based on context">>,
       <<"   Example: 'Use code-reviewer to check my changes'">>,
       <<"NL", "BOX", " Model Distribution:">>,
       <<"   ", "BULLET", " ", "ROCKET", " Haiku (fast): 16 agents">>,
       <<"   ", "BULLET", " ", "ZAP", " Sonnet (balanced): 44 agents">>,
       <<"   ", "BULLET", " ", "BRAIN", " Opus (powerful): 15 agents">>,
       <<>> >>

\* f"\n### {category}"
CategoryLine(category) == <<"NL","#","#","#"," ">> \o category

\* Variant: the description is printed whole on the first line.
AgentLineUnsliced(agent_name, agent_desc) ==
    <<" "," ","BULLET"," ">> \o LJust(agent_name, NameWidth) \o <<" ">> \o agent_desc

\* f"  BULLET {agent_name:30} {agent_desc[:70]}"
AgentLine(agent_name, agent_desc) ==
    <<" "," ","BULLET"," ">> \o LJust(agent_name, NameWidth) \o <<" ">>
        \o SliceTo(agent_desc, DescWidth)

\* f"    {' ':30} {remaining[:70]}"
WrapLine(rem) ==
    <<" "," "," "," ">> \o LJust(<<" ">>, NameWidth) \o <<" ">>
        \o SliceTo(rem, DescWidth)

(***************************************************************************)
(* The state after start-up: nothing has run yet.                          *)
(***************************************************************************)
Init ==
    /\ path_exists \in BOOLEAN
    /\ content \in Docs
    /\ lines = <<>>
    /\ i = 0
    /\ current_category = None
    /\ agents = None
    /\ cat_idx = 0
    /\ agent_idx = 0
    /\ remaining = <<>>
    /\ output = <<>>
    /\ pc = "parse_start"

(***************************************************************************)
(* parse_readme                                                            *)
(***************************************************************************)
\* Variant: a line that fails the pattern unsets the cursor.
LineStepResetOnMalformed(line, cur, d) ==
    IF IsCategoryHeading(line)
    THEN [cur |-> HeadingCategory(d, line, cur), agents |-> d]
    ELSE IF Truthy(cur) /\ StartsWith(Strip(line), EntryMarker)
    THEN LET agent_match == AgentMatch(Strip(line))
         IN  IF ~agent_match.is_none
             THEN [cur |-> cur,
                   agents |-> DictAppend(d, cur.val,
                                 <<agent_match.val.name, agent_match.val.desc>>)]
             ELSE [cur |-> None, agents |-> d]
    ELSE [cur |-> cur, agents |-> d]

\* The effect of one iteration of the loop over the lines on
\* (current_category, agents).
LineStep(line, cur, d) ==
    IF IsCategoryHeading(line)
    THEN [cur |-> HeadingCategory(d, line, cur), agents |-> d]
    ELSE IF Truthy(cur) /\ StartsWith(Strip(line), EntryMarker)
    THEN LET agent_match == AgentMatch(Strip(line))
         IN  IF ~agent_match.is_none
             THEN [cur |-> cur,
                   agents |-> DictAppend(d, cur.val,
                                 <<agent_match.val.name, agent_match.val.desc>>)]
             ELSE [cur |-> cur, agents |-> d]
    ELSE [cur |-> cur, agents |-> d]

\* The file is absent: return None.
ParseMissing ==
    /\ pc = "parse_start"
    /\ ~path_exists
    /\ agents' = None
    /\ pc' = "display"
    /\ UNCHANGED <<path_exists, content, lines, i, current_category,
                   cat_idx, agent_idx, remaining, output>>

\* Variant: the cursor starts on the first category.
InitialCategoryFirst == Some(CategoryList[1])

\* current_category = None
InitialCategory == None

\* Read the file, build the empty catalog, unset the cursor.
ParseOpen ==
    /\ pc = "parse_start"
    /\ path_exists
    /\ lines' = Split(content)
    /\ agents' = Some(InitialAgents)
    /\ current_category' = InitialCategory
    /\ i' = 1
    /\ pc' = "parse_loop"
    /\ UNCHANGED <<path_exists, content, cat_idx, agent_idx, remaining, output>>

\* One iteration of "for line in content.split('\n')".
ParseLine ==
    /\ pc = "parse_loop"
    /\ i <= Len(lines)
    /\ LET r == LineStep(lines[i], current_category, agents.val)
       IN  /\ current_category' = r.cur
           /\ agents' = Some(r.agents)
    /\ i' = i + 1
    /\ UNCHANGED <<path_exists, content, lines, cat_idx, agent_idx,
                   remaining, output, pc>>

\* return agents
ParseReturn ==
    /\ pc = "parse_loop"
    /\ i > Len(lines)
    /\ pc' = "display"
    /\ UNCHANGED <<path_exists, content, lines, i, current_category, agents,
                   cat_idx, agent_idx, remaining, output>>

(***************************************************************************)
(* display_agents                                                          *)
(***************************************************************************)
\* Variant: the return after the message is missing.
DisplayUnableNoReturn ==
    /\ pc = "display"
    /\ ~Truthy(agents)
    /\ output' = output \o <<UnableMessage, TitleLine, Repeat("=", BannerWidth)>>
    /\ cat_idx' = 1
    /\ pc' = "cat_loop"
    /\ UNCHANGED <<path_exists, content, lines, i, current_category, agents,
                   agent_idx, remaining>>

\* if not agents: print the message and return.
DisplayUnable ==
    /\ pc = "display"
    /\ ~Truthy(agents)
    /\ output' = Append(output, UnableMessage)
    /\ pc' = "done"
    /\ UNCHANGED <<path_exists, content, lines, i, current_category, agents,
                   cat_idx, agent_idx, remaining>>

\* The title and the rule under it.
DisplayBanner ==
    /\ pc = "display"
    /\ Truthy(agents)
    /\ output' = output \o <<TitleLine, Repeat("=", BannerWidth)>>
    /\ cat_idx' = 1
    /\ pc' = "cat_loop"
    /\ UNCHANGED <<path_exists, content, lines, i, current_category, agents,
                   agent_idx, remaining>>

\* One iteration of "for category, agent_list in agents.items()", up to
\* the loop over the entries.
DisplayCategory ==
    /\ pc = "cat_loop"
    /\ cat_idx <= Len(agents.val)
    /\ LET category == agents.val[cat_idx].key
           agent_list == agents.val[cat_idx].val
       IN  IF agent_list # <<>>
           THEN /\ output' = output \o <<CategoryLine(category), Repeat("-", RuleWidth)>>
                /\ agent_idx' = 1
                /\ cat_idx' = cat_idx
                /\ pc' = "agent_loop"
           ELSE /\ cat_idx' = cat_idx + 1
                /\ UNCHANGED <<output, agent_idx, pc>>
    /\ UNCHANGED <<path_exists, content, lines, i, current_category, agents,
                   remaining>>

\* One iteration of "for agent_name, agent_desc in agent_list", up to the
\* while loop.
DisplayAgent ==
    /\ pc = "agent_loop"
    /\ agent_idx <= Len(agents.val[cat_idx].val)
    /\ LET agent_name == agents.val[cat_idx].val[agent_idx][1]
           agent_desc == agents.val[cat_idx].val[agent_idx][2]
       IN  /\ output' = Append(output, AgentLine(agent_name, agent_desc))
           /\ IF Len(agent_desc) > DescWidth
              THEN /\ remaining' = SliceFrom(agent_desc, DescWidth)
                   /\ pc' = "wrap_loop"
                   /\ agent_idx' = agent_idx
              ELSE /\ agent_idx' = agent_idx + 1
                   /\ UNCHANGED <<remaining, pc>>
    /\ UNCHANGED <<path_exists, content, lines, i, current_category, agents,
                   cat_idx>>

\* One iteration of "while remaining".
DisplayWrap ==
    /\ pc = "wrap_loop"
    /\ Len(remaining) > 0
    /\ output' = Append(output, WrapLine(remaining))
    /\ remaining' = SliceFrom(remaining, DescWidth)
    /\ UNCHANGED <<path_exists, content, lines, i, current_category, agents,
                   cat_idx, agent_idx, pc>>

\* "while remaining" ends: on to the next entry.
WrapDone ==
    /\ pc = "wrap_loop"
    /\ Len(remaining) = 0
    /\ agent_idx' = agent_idx + 1
    /\ pc' = "agent_loop"
    /\ UNCHANGED <<path_exists, content, lines, i, current_category, agents,
                   cat_idx, remaining, output>>

\* The loop over the entries ends: on to the next category.
AgentsDone ==
    /\ pc = "agent_loop"
    /\ agent_idx > Len(agents.val[cat_idx].val)
    /\ cat_idx' = cat_idx + 1
    /\ pc' = "cat_loop"
    /\ UNCHANGED <<path_exists, content, lines, i, current_category, agents,
                   agent_idx, remaining, output>>

\* The loop over the categories ends: the closing rule, the usage hint and
\* the Model Distribution block.
DisplayFooter ==
    /\ pc = "cat_loop"
    /\ cat_idx > Len(agents.val)
    /\ output' = output \o FooterLines
    /\ pc' = "done"
    /\ UNCHANGED <<path_exists, content, lines, i, current_category, agents,
                   cat_idx, agent_idx, remaining>>

Next ==
    \/ ParseMissing
    \/ ParseOpen
    \/ ParseLine
    \/ ParseReturn
    \/ DisplayUnable
    \/ DisplayBanner
    \/ DisplayCategory
    \/ DisplayAgent
    \/ DisplayWrap
    \/ WrapDone
    \/ AgentsDone
    \/ DisplayFooter

Spec == Init /\ [][Next]_vars

(***************************************************************************)
(* Vocabulary of the properties, stated on the text itself.                *)
(***************************************************************************)
\* The known category names (by position in the fixed list) found in a line.
KnownIn(line) == {k \in 1..Len(CategoryList) : Contains(line, CategoryList[k])}

\* A line that qualifies as a category heading.
Qualifies(line) ==
    /\ Len(line) >= 4
    /\ SubSeq(line, 1, 4) = <<"#","#","#"," ">>
    /\ ~(Len(line) >= 5 /\ line[5] = "ROCKET")

\* A recognized heading: it qualifies and names a known category.
Recognized(line) == Qualifies(line) /\ KnownIn(line) # {}

\* s is '- **[' name '](' link ')** - ' desc, with the ']' at p and the ')'
\* at q, name free of ']', link free of ')', none of the three empty.
WellFormedAt(s, p, q) ==
    /\ s[p] = "]"
    /\ s[q] = ")"
    /\ p >= 7
    /\ q >= p + 3
    /\ Len(s) >= q + 6
    /\ SubSeq(s, 1, 5) = <<"-"," ","*","*","[">>
    /\ s[p + 1] = "("
    /\ SubSeq(s, q + 1, q + 5) = <<"*","*"," ","-"," ">>
    /\ \A k \in 6..(p - 1) : s[k] # "]"
    /\ \A k \in (p + 2)..(q - 1) : s[k] # ")"

Cuts(s) ==
    {pq \in {p \in 1..Len(s) : s[p] = "]"} \X {q \in 1..Len(s) : s[q] = ")"} :
        WellFormedAt(s, pq[1], pq[2])}

\* The line with the blanks around it removed.
Trimmed(line) ==
    LET keep == {k \in 1..Len(line) : line[k] \notin {" ", "TAB"}}
    IN  IF keep = {} THEN <<>>
        ELSE SubSeq(line, CHOOSE k \in keep : \A m \in keep : k <= m,
                          CHOOSE k \in keep : \A m \in keep : k >= m)

\* An entry line: trimmed, it matches the entry pattern.
IsEntry(line) == Cuts(Trimmed(line)) # {}

\* A line that starts like an entry and does not match the pattern.
IsMalformed(line) ==
    /\ Len(Trimmed(line)) >= 5
    /\ SubSeq(Trimmed(line), 1, 5) = <<"-"," ","*","*","[">>
    /\ ~IsEntry(line)

\* The (name, description) written on an entry line.
FieldsOf(line) ==
    LET s == Trimmed(line)
        pq == CHOOSE pq \in Cuts(s) : TRUE
    IN  <<SubSeq(s, 6, pq[1] - 1), SubSeq(s, pq[2] + 6, Len(s))>>

\* The entries the catalog d holds for category number k.
EntriesOf(d, k) ==
    LET hit == {m \in 1..Len(d) : d[m].key = CategoryList[k]}
    IN  IF hit = {} THEN <<>> ELSE d[CHOOSE m \in hit : TRUE].val

RECURSIVE CountEntries(_, _)
CountEntries(d, n) == IF n = 0 THEN 0 ELSE Len(d[n].val) + CountEntries(d, n - 1)

\* A step of the loop over the lines, handling lines[i].
ParseStep == pc = "parse_loop" /\ i <= Len(lines) /\ i' = i + 1

\* The extraction pass has started on an existing file.
Parsing == path_exists /\ pc # "parse_start"

(***************************************************************************)
(* C1.  After a heading line that qualifies and contains exactly one known *)
(* category name, every entry line is appended to that category and to no  *)
(* other, until the next recognized heading; lines in between that are not *)
(* recognized headings (among them headings naming no known category) do   *)
(* not end the attachment.                                                 *)
(***************************************************************************)
\* The last recognized heading before line n (0 if none).
LastRecognized(n) ==
    LET hs == {h \in 1..(n - 1) : Recognized(lines[h])}
    IN  IF hs = {} THEN 0 ELSE CHOOSE h \in hs : \A m \in hs : h >= m

C1_AttachStep ==
    ParseStep /\ IsEntry(lines[i]) /\ LastRecognized(i) # 0
              /\ Cardinality(KnownIn(lines[LastRecognized(i)])) = 1
    => LET c == CHOOSE k \in KnownIn(lines[LastRecognized(i)]) : TRUE
       IN  \A k \in 1..Len(CategoryList) :
              EntriesOf(agents'.val, k) =
                 IF k = c THEN Append(EntriesOf(agents.val, k), FieldsOf(lines[i]))
                 ELSE EntriesOf(agents.val, k)

C1_Attachment == [][C1_AttachStep]_vars

\* An entry was just appended although a heading naming no known category
\* stands between it and its category's heading.
C1_Witness ==
    /\ pc = "parse_loop" /\ i = 4
    /\ Recognized(lines[1]) /\ Cardinality(KnownIn(lines[1])) = 1
    /\ Qualifies(lines[2]) /\ KnownIn(lines[2]) = {}
    /\ IsEntry(lines[3])
    /\ \E k \in KnownIn(lines[1]) : EntriesOf(agents.val, k) = <<FieldsOf(lines[3])>>

(***************************************************************************)
(* C2.  While a category is current, a well-formed entry line appends the  *)
(* pair (name, description) at the end of that category's sequence, and    *)
(* both fields are the characters written on the line, unchanged.          *)
(***************************************************************************)
C2_AppendStep ==
    ParseStep /\ ~current_category.is_none /\ IsEntry(lines[i])
    => \E k \in 1..Len(CategoryList) :
          /\ current_category.val = CategoryList[k]
          /\ EntriesOf(agents'.val, k) =
                Append(EntriesOf(agents.val, k), FieldsOf(lines[i]))
          /\ Trimmed(lines[i]) \in
                {EntryLine(FieldsOf(lines[i])[1],
                           SubSeq(Trimmed(lines[i]), pq[1] + 2, pq[2] - 1),
                           FieldsOf(lines[i])[2]) : pq \in Cuts(Trimmed(lines[i]))}

C2_Verbatim == [][C2_AppendStep]_vars

\* The entry with blanks around it and brackets inside its fields sits
\* second in its category, after an earlier entry of the document.
C2_Witness ==
    /\ pc = "parse_loop" /\ i = 4
    /\ lines[3] = PaddedEntry
    /\ IsEntry(lines[2])
    /\ \E k \in 1..Len(CategoryList) :
          EntriesOf(agents.val, k) =
             <<FieldsOf(lines[2]), << <<"b","[">>, <<" ","f",")"," ","]","*","*">> >> >>

(***************************************************************************)
(* C3.  An entry line read before any recognized heading adds no entry to  *)
(* any category: the catalog holds as many entries as there are entry      *)
(* lines read so far with a recognized heading before them.                *)
(***************************************************************************)
C3_NoOrphanEntry ==
    Parsing =>
        CountEntries(agents.val, Len(agents.val)) =
            Cardinality({n \in 1..(i - 1) : IsEntry(lines[n]) /\ LastRecognized(n) # 0})

\* The run is over; the file began with an entry line, a recognized heading
\* and a second entry followed, and the catalog holds one entry only.
C3_Witness ==
    /\ pc = "done" /\ path_exists
    /\ Len(lines) = 3
    /\ IsEntry(lines[1]) /\ Recognized(lines[2]) /\ IsEntry(lines[3])
    /\ CountEntries(agents.val, Len(agents.val)) = 1

(***************************************************************************)
(* C4.  A line starting with "### ROCKET" leaves current_category and the  *)
(* catalog as they were, also when it contains a known category name.      *)
(***************************************************************************)
C4_RocketStep ==
    ParseStep /\ Len(lines[i]) >= 5
              /\ SubSeq(lines[i], 1, 5) = <<"#","#","#"," ","ROCKET">>
    => current_category' = current_category /\ agents' = agents

C4_RocketFrame == [][C4_RocketStep]_vars

\* A rocket heading naming a known category was just read while another
\* category was current, and that other category is still current.
C4_Witness ==
    /\ pc = "parse_loop" /\ i = 3
    /\ lines[2] = RocketHeading /\ KnownIn(lines[2]) = {5}
    /\ current_category = Some(CategoryList[7])

(***************************************************************************)
(* C5.  With no input file parse_readme returns None, and the whole output *)
(* of display_agents is the one line "Unable to load agent information.".  *)
(***************************************************************************)
C5_MissingFile ==
    ~path_exists =>
        /\ pc # "parse_start" => agents = None
        /\ pc = "done" => output = << <<"Unable to load agent information.">> >>
        /\ pc # "done" => output = <<>>

C5_Witness == ~path_exists /\ pc = "done" /\ Len(output) = 1

(***************************************************************************)
(* C6.  Throughout the extraction pass over an existing file, and in the   *)
(* catalog returned, the keys are exactly the 9 category names.            *)
(***************************************************************************)
C6_FixedKeys ==
    Parsing =>
        /\ ~agents.is_none
        /\ Len(agents.val) = 9
        /\ Cardinality({agents.val[k].key : k \in 1..Len(agents.val)}) = 9
        /\ {agents.val[k].key : k \in 1..Len(agents.val)}
              = {CategoryList[k] : k \in 1..Len(CategoryList)}

\* The catalog was returned with entries in one category and none in another.
C6_Witness ==
    /\ pc = "done" /\ path_exists
    /\ EntriesOf(agents.val, 7) # <<>>
    /\ EntriesOf(agents.val, 1) = <<>>

(***************************************************************************)
(* C7.  A qualifying heading that contains several known category names    *)
(* sets current_category to the one that is first in the category list,    *)
(* wherever the names stand in the heading.                                *)
(***************************************************************************)
C7_FirstInListStep ==
    ParseStep /\ Qualifies(lines[i]) /\ Cardinality(KnownIn(lines[i])) > 1
    => \E k \in KnownIn(lines[i]) :
          /\ \A m \in KnownIn(lines[i]) : k <= m
          /\ current_category' = Some(CategoryList[k])

C7_FirstInList == [][C7_FirstInListStep]_vars

\* The heading that names category 7 before category 5 was just read, and
\* category 5 is current.
C7_Witness ==
    /\ pc = "parse_loop" /\ i > 1
    /\ lines[i - 1] = MultiHeading /\ KnownIn(lines[i - 1]) = {5, 7}
    /\ current_category = Some(CategoryList[5])

(***************************************************************************)
(* C10.  A line that starts, once trimmed, with the entry marker and does  *)
(* not match the entry pattern changes neither the catalog nor             *)
(* current_category, the loop goes on, and a well-formed entry line right  *)
(* after it is appended to the current category.                           *)
(***************************************************************************)
C10_SkipStep ==
    ParseStep /\ IsMalformed(lines[i])
    => current_category' = current_category /\ agents' = agents /\ pc' = pc

C10_EntryAfterSkip ==
    pc = "parse_loop" /\ i >= 3 /\ IsMalformed(lines[i - 2]) /\ IsEntry(lines[i - 1])
        /\ LastRecognized(i - 2) # 0
    => /\ ~current_category.is_none
       /\ \E k \in 1..Len(CategoryList) :
             /\ current_category.val = CategoryList[k]
             /\ EntriesOf(agents.val, k) # <<>>
             /\ EntriesOf(agents.val, k)[Len(EntriesOf(agents.val, k))]
                   = FieldsOf(lines[i - 1])

C10_MalformedSkipped == [][C10_SkipStep]_vars /\ []C10_EntryAfterSkip

\* A malformed line was skipped under a category, and the entry line after
\* it is in the catalog.
C10_Witness ==
    /\ pc = "parse_loop" /\ i = 4
    /\ Recognized(lines[1]) /\ IsMalformed(lines[2]) /\ IsEntry(lines[3])
    /\ CountEntries(agents.val, Len(agents.val)) = 1

(***************************************************************************)
(* C8.  An entry whose description has 85 characters is printed on exactly *)
(* two lines.  As claimed: the first is the name followed by the first 70  *)
(* characters, the second a 30-space indent followed by the last 15.       *)
(* As the code prints them: the first is two spaces, the bullet, a space,   *)
(* the name left-justified in a 30-character field, a space and the first  *)
(* 70 characters; the second is a 35-space indent (four spaces, the        *)
(* 30-space blank field, a space) followed by the last 15 characters.      *)
(***************************************************************************)
\* The first entry of the first non-empty category has just been printed,
\* and its description has 85 characters.
C8_Case ==
    /\ pc = "agent_loop" /\ agent_idx = 2
    /\ \A k \in 1..(cat_idx - 1) : agents.val[k].val = <<>>
    /\ Len(agents.val[cat_idx].val[1][2]) = 85

\* The claim with the indent it states.
C8_ThirtySpaceIndent ==
    C8_Case =>
        LET name == agents.val[cat_idx].val[1][1]
            desc == agents.val[cat_idx].val[1][2]
            first == output[5]
        IN  /\ Len(output) = 6
            /\ output[4] = [k \in 1..40 |-> "-"]
            /\ Contains(first, name)
            /\ SubSeq(first, Len(first) - 69, Len(first)) = SubSeq(desc, 1, 70)
            /\ output[6] = [k \in 1..30 |-> " "] \o SubSeq(desc, 71, 85)

\* The claim with the layout the code prints.
C8_TwoLines ==
    C8_Case =>
        LET name == agents.val[cat_idx].val[1][1]
            desc == agents.val[cat_idx].val[1][2]
            pad == IF Len(name) < 30 THEN [k \in 1..(30 - Len(name)) |-> " "] ELSE <<>>
        IN  /\ Len(output) = 6
            /\ output[4] = [k \in 1..40 |-> "-"]
            /\ output[5] = <<" "," ","BULLET"," ">> \o name \o pad \o <<" ">>
                              \o SubSeq(desc, 1, 70)
            /\ output[6] = [k \in 1..35 |-> " "] \o SubSeq(desc, 71, 85)

C8_Witness == C8_Case /\ Len(output) = 6 /\ Len(output[6]) = 50

(***************************************************************************)
(* C9.  An entry whose description has L >= 1 characters is printed on     *)
(* exactly ceil(L/70) lines; the description parts of these lines are the  *)
(* consecutive 70-character slices of the description (the last may be     *)
(* shorter, none is empty), their concatenation is the description, and    *)
(* every turn of the wrap loop shortens what remains, so the loop ends.    *)
(***************************************************************************)
LinesOf(desc) == (Len(desc) + 69) \div 70

RECURSIVE Flatten(_)
Flatten(parts) == IF parts = <<>> THEN <<>> ELSE Head(parts) \o Flatten(Tail(parts))

\* The description part of the k-th line printed for an entry called name.
DescPart(line, k, name) ==
    IF k = 1
    THEN SubSeq(line, 4 + (IF Len(name) > 30 THEN Len(name) ELSE 30) + 2, Len(line))
    ELSE SubSeq(line, 36, Len(line))

RECURSIVE EntryLines(_, _)
EntryLines(agent_list, n) ==
    IF n = 0 THEN 0 ELSE LinesOf(agent_list[n][2]) + EntryLines(agent_list, n - 1)

RECURSIVE CategoryLines(_, _)
CategoryLines(d, n) ==
    IF n = 0 THEN 0
    ELSE (IF d[n].val = <<>> THEN 0 ELSE 2 + EntryLines(d[n].val, Len(d[n].val)))
         + CategoryLines(d, n - 1)

\* The entry before agent_idx has been printed: the last lines of the output.
C9_EntryPrinted ==
    pc = "agent_loop" /\ agent_idx > 1 =>
        LET name == agents.val[cat_idx].val[agent_idx - 1][1]
            desc == agents.val[cat_idx].val[agent_idx - 1][2]
            n == Len(output)
            K == LinesOf(desc)
            parts == [k \in 1..K |-> DescPart(output[n - K + k], k, name)]
        IN  /\ Len(desc) >= 1
            /\ n >= K
            /\ \A k \in 1..K :
                  /\ parts[k] # <<>>
                  /\ k < K => Len(parts[k]) = 70
                  /\ parts[k] = SubSeq(desc, 70 * (k - 1) + 1,
                                       IF 70 * k < Len(desc) THEN 70 * k ELSE Len(desc))
            /\ Flatten(parts) = desc

\* No line besides the banner, the category blocks and the footer.
C9_LineCount ==
    /\ pc = "agent_loop" =>
          Len(output) = 2 + CategoryLines(agents.val, cat_idx - 1) + 2
                          + EntryLines(agents.val[cat_idx].val, agent_idx - 1)
    /\ pc = "done" /\ path_exists =>
          Len(output) = 2 + CategoryLines(agents.val, Len(agents.val)) + 8

C9_WrapShrinks ==
    pc = "wrap_loop" /\ pc' = "wrap_loop" => Len(remaining') < Len(remaining)

C9_RawSlices == [](C9_EntryPrinted /\ C9_LineCount) /\ [][C9_WrapShrinks]_vars

\* An entry that needed three lines, the last one shorter, has been printed.
C9_Witness ==
    /\ pc = "agent_loop" /\ agent_idx = 2
    /\ Len(agents.val[cat_idx].val[1][2]) = 141
    /\ Len(output) = 7
    /\ Len(output[7]) = 36

====
